---- MODULE Spec2Model ----
(***************************************************************************)
(* Provider normalization pipeline: three adapters (provider_a nested      *)
(* JSON, provider_b flat JSON, provider_c delimited text) behind the       *)
(* Provider trait {parse, validate, convert}, driven by run_provider.      *)
(*                                                                         *)
(* Strings are sequences of byte values (ASCII codes), so that len(),      *)
(* trim(), starts_with(), number/date parsing and the byte-wise ordering   *)
(* of BTreeMap<String, _> keys are computed, not assumed.                  *)
(* A BTreeMap is a function whose keys are iterated in ascending order.    *)
(* Row indices are 0-based as in the source; data[i+1] is row i.           *)
(***************************************************************************)
EXTENDS Integers, Sequences, FiniteSets, TLC

VARIABLES provider, data, error_index, pc, text, valdation_errors,
          calls, ret, runRet

vars == <<provider, data, error_index, pc, text, valdation_errors,
          calls, ret, runRet>>

(***************************************************************************)
(* Bounds of the model.                                                    *)
(***************************************************************************)
\* longest input batch (items of a JSON array, records of a delimited text),
\* and the most rows one adapter instance is let to store
MaxRows == 2

(***************************************************************************)
(* Strings.                                                                *)
(***************************************************************************)
\* String's Ord: byte-wise lexicographic, a proper prefix first
RECURSIVE StrLess(_, _)
StrLess(s, t) ==
    IF t = <<>> THEN FALSE
    ELSE IF s = <<>> THEN TRUE
    ELSE IF s[1] # t[1] THEN s[1] < t[1]
    ELSE StrLess(Tail(s), Tail(t))

\* SortedKeys with the keys in descending order
RECURSIVE SortedKeysDescending(_)
SortedKeysDescending(S) ==
    IF S = {} THEN <<>>
    ELSE LET m == CHOOSE x \in S : \A y \in S \ {x} : StrLess(y, x)
         IN  <<m>> \o SortedKeysDescending(S \ {m})

\* iteration order of a BTreeMap / BTreeSet of strings: ascending keys
RECURSIVE SortedKeys(_)
SortedKeys(S) ==
    IF S = {} THEN <<>>
    ELSE LET m == CHOOSE x \in S : \A y \in S \ {x} : StrLess(x, y)
         IN  <<m>> \o SortedKeys(S \ {m})

\* str::starts_with
StartsWith(s, prefix) ==
    /\ Len(s) >= Len(prefix)
    /\ SubSeq(s, 1, Len(prefix)) = prefix

\* &s[n..]
DropPrefix(s, n) == SubSeq(s, n + 1, Len(s))

IsSpace(c) == c \in {32, 9}

\* str::trim
RECURSIVE TrimStart(_)
TrimStart(s) ==
    IF s # <<>> /\ IsSpace(s[1]) THEN TrimStart(Tail(s)) ELSE s

RECURSIVE TrimEnd(_)
TrimEnd(s) ==
    IF s # <<>> /\ IsSpace(s[Len(s)]) THEN TrimEnd(SubSeq(s, 1, Len(s) - 1)) ELSE s

Trim(s) == TrimEnd(TrimStart(s))

IsDigit(c) == c >= 48 /\ c <= 57

\* value of a run of ASCII digits
RECURSIVE DigitsValue(_, _)
DigitsValue(s, acc) ==
    IF s = <<>> THEN acc ELSE DigitsValue(Tail(s), acc * 10 + (s[1] - 48))

AllDigits(s) == s # <<>> /\ \A i \in 1..Len(s) : IsDigit(s[i])

\* str::parse::<i64>: optional sign, then at least one digit, nothing else.
\* [ok, v]
ParseI64(s) ==
    IF s # <<>> /\ s[1] = 45
    THEN IF AllDigits(Tail(s)) THEN [ok |-> TRUE, v |-> 0 - DigitsValue(Tail(s), 0)]
         ELSE [ok |-> FALSE, v |-> 0]
    ELSE IF s # <<>> /\ s[1] = 43
    THEN IF AllDigits(Tail(s)) THEN [ok |-> TRUE, v |-> DigitsValue(Tail(s), 0)]
         ELSE [ok |-> FALSE, v |-> 0]
    ELSE IF AllDigits(s) THEN [ok |-> TRUE, v |-> DigitsValue(s, 0)]
    ELSE [ok |-> FALSE, v |-> 0]

\* the leading run of at most max digits of s
RECURSIVE DigitRun(_, _)
DigitRun(s, max) ==
    IF max > 0 /\ s # <<>> /\ IsDigit(s[1])
    THEN <<s[1]>> \o DigitRun(Tail(s), max - 1)
    ELSE <<>>

DaysInMonth(y, m) ==
    IF m \in {4, 6, 9, 11} THEN 30
    ELSE IF m = 2
    THEN IF (y % 4 = 0 /\ y % 100 # 0) \/ y % 400 = 0 THEN 29 ELSE 28
    ELSE 31

\* NaiveDate::parse_from_str(s, fmt) for the two formats of the source:
\* a year of up to four digits, a month and a day of up to two digits each,
\* separated by sep ("" for %Y%m%d, "-" for %Y-%m-%d), nothing after the day,
\* and the three numbers name a calendar date.  TRUE iff Ok.
ParseDate(s, sep) ==
    LET ys == DigitRun(s, 4)
        r1 == DropPrefix(s, Len(ys))
        okSep1 == StartsWith(r1, sep)
        r2 == DropPrefix(r1, Len(sep))
        ms == DigitRun(r2, 2)
        r3 == DropPrefix(r2, Len(ms))
        okSep2 == StartsWith(r3, sep)
        r4 == DropPrefix(r3, Len(sep))
        ds == DigitRun(r4, 2)
        r5 == DropPrefix(r4, Len(ds))
        y == DigitsValue(ys, 0)
        m == DigitsValue(ms, 0)
        d == DigitsValue(ds, 0)
    IN  /\ ys # <<>> /\ okSep1 /\ ms # <<>> /\ okSep2 /\ ds # <<>>
        /\ r5 = <<>>
        /\ m >= 1 /\ m <= 12
        /\ d >= 1 /\ d <= DaysInMonth(y, m)

(***************************************************************************)
(* model.rs                                                                *)
(***************************************************************************)
\* NormalizationError, one shape for every variant
ErrNone == [tag |-> "None", msg |-> "", index |-> 0, list |-> <<>>]
ErrParse(m) == [tag |-> "Parse", msg |-> m, index |-> 0, list |-> <<>>]
ErrValidate(m, i) == [tag |-> "Validate", msg |-> m, index |-> i, list |-> <<>>]
ErrAggregate(l) == [tag |-> "Aggregate", msg |-> "", index |-> 0, list |-> l]
ErrUnknown(m) == [tag |-> "Unknown", msg |-> m, index |-> 0, list |-> <<>>]

\* NormalizeScore; row is the index of the raw row the score was derived from
NormalizeScore(dimension, value, row) ==
    [dimension |-> dimension, value |-> value, scale |-> "0-100", row |-> row]

\* NormalizeData::new: no scores yet; createdBy is the index of the raw row
\* whose (patientId, assessmentType) pair made convert() create the record
NormalizeData(patientId, assessmentType, metadata, createdBy) ==
    [patientId |-> patientId, assessmentType |-> assessmentType,
     assessmentDate |-> "now", scores |-> <<>>, metadata |-> metadata,
     createdBy |-> createdBy]


\* BTreeMap::insert
Insert(f, k, v) == [x \in DOMAIN f \cup {k} |-> IF x = k THEN v ELSE f[x]]

EmptyMap == [k \in {} |-> 0]

\* Group with the record looked up by patient alone: a patient already seen
\* gets no record for a further assessment type, and the scores of such a
\* row are dropped
GroupByPatient(patients, id, assessment_type, scores, metadata, index) ==
    LET p1 == IF id \in DOMAIN patients THEN patients
              ELSE Insert(patients, id, EmptyMap)
        assessments == p1[id]
        a1 == IF id \in DOMAIN patients THEN assessments
              ELSE Insert(assessments, assessment_type,
                          NormalizeData(id, assessment_type, metadata, index))
    IN  IF assessment_type \in DOMAIN a1
        THEN Insert(p1, id, Insert(a1, assessment_type,
                        [a1[assessment_type] EXCEPT !.scores = @ \o scores]))
        ELSE Insert(p1, id, a1)

\* Group with the scores of a row put before those already in the record
GroupPrepending(patients, id, assessment_type, scores, metadata, index) ==
    LET p1 == IF id \in DOMAIN patients THEN patients
              ELSE Insert(patients, id, EmptyMap)
        assessments == p1[id]
        a1 == IF assessment_type \in DOMAIN assessments THEN assessments
              ELSE Insert(assessments, assessment_type,
                          NormalizeData(id, assessment_type, metadata, index))
        normalized_data == a1[assessment_type]
        pushed == [normalized_data EXCEPT !.scores = scores \o @]
    IN  Insert(p1, id, Insert(a1, assessment_type, pushed))

\* the grouping step of convert(), the same text in the three adapters:
\* patients.insert(id, BTreeMap::new()) unless the id is a key already, then
\* assessments.insert(assessment_type, NormalizeData::new(..)) unless the type
\* is a key already, then every score of the row pushed onto that record
Group(patients, id, assessment_type, scores, metadata, index) ==
    LET p1 == IF id \in DOMAIN patients THEN patients
              ELSE Insert(patients, id, EmptyMap)
        assessments == p1[id]
        a1 == IF assessment_type \in DOMAIN assessments THEN assessments
              ELSE Insert(assessments, assessment_type,
                          NormalizeData(id, assessment_type, metadata, index))
        normalized_data == a1[assessment_type]
        pushed == [normalized_data EXCEPT !.scores = @ \o scores]
    IN  Insert(p1, id, Insert(a1, assessment_type, pushed))

\* the records of one patient, in the order of the inner BTreeMap
AssessmentsOf(assessments) ==
    LET ks == SortedKeys(DOMAIN assessments)
    IN  [i \in 1..Len(ks) |-> assessments[ks[i]]]

\* the output loop of convert(): for (_, assessments) in patients
\*                                 for (_, assessment) in assessments: push
RECURSIVE OutputFrom(_, _)
OutputFrom(patients, ids) ==
    IF ids = <<>> THEN <<>>
    ELSE AssessmentsOf(patients[ids[1]]) \o OutputFrom(patients, Tail(ids))

Output(patients) == OutputFrom(patients, SortedKeys(DOMAIN patients))

\* Skipped with no row skipped
SkippedNever(ei, index) == FALSE

\* if self.error_index.contains(&index) { continue; }
Skipped(ei, index) == index \in ei

(***************************************************************************)
(* provider_a.rs: nested JSON                                              *)
(***************************************************************************)
\* parse_dob: the text as a date, or None (an empty sequence) when it does
\* not parse as %Y%m%d
parse_dob(s) == IF ParseDate(s, <<>>) THEN <<s>> ELSE <<>>

\* one element of the JSON array as struct Data
DataA(item) ==
    [patient |-> [id |-> item.id, name |-> item.name, dob |-> parse_dob(item.dob)],
     assessment |-> [type_ |-> item.type_, scores |-> item.scores,
                     notes |-> item.notes]]

a_get_metadata ==
    [sourceProvider |-> "provider_a", sourceFormat |-> "nested_json",
     ingestedAt |-> "now", version |-> "1.0"]

\* serde_json::from_str::<Vec<Data>>: the text is JSON, an array, and every
\* element has the fields of Data with their types
a_from_str_ok(t) ==
    /\ t.wellFormed
    /\ \A i \in 1..Len(t.items) : t.items[i].conforms

\* ProviderHandler::parse of provider_a: [ok, err, data]
a_parse(t, self_data) ==
    IF a_from_str_ok(t)
    THEN [ok |-> TRUE, err |-> ErrNone,
          data |-> [i \in 1..Len(t.items) |-> DataA(t.items[i])]]
    ELSE [ok |-> FALSE, err |-> ErrParse("serde_json"), data |-> self_data]

\* a_invalid without the test of the notes
a_invalid_without_notes(d) ==
    /\ Len(d.patient.id) = 0
    /\ Len(d.patient.name) = 0
    /\ d.patient.dob = <<>>
    /\ Len(d.assessment.type_) = 0
    /\ DOMAIN d.assessment.scores = {}

\* the condition of validate() of provider_a
a_invalid(d) ==
    /\ Len(d.patient.id) = 0
    /\ Len(d.patient.name) = 0
    /\ d.patient.dob = <<>>
    /\ Len(d.assessment.type_) = 0
    /\ DOMAIN d.assessment.scores = {}
    /\ Len(d.assessment.notes) = 0

\* the loop of validate() from row index on: [output, error_index]
RECURSIVE a_validate_from(_, _, _, _)
a_validate_from(self_data, index, output, ei) ==
    IF index >= Len(self_data) THEN [output |-> output, error_index |-> ei]
    ELSE IF a_invalid(self_data[index + 1])
    THEN a_validate_from(self_data, index + 1,
                         Append(output, ErrValidate("Data is invalid", index)),
                         ei \cup {index})
    ELSE a_validate_from(self_data, index + 1, output, ei)

\* validate emptying error_index at entry
a_validate_clearing(self_data, ei) ==
    LET r == a_validate_from(self_data, 0, <<>>, {})
    IN  [err |-> IF Len(r.output) > 0 THEN ErrAggregate(r.output) ELSE ErrNone,
         error_index |-> r.error_index]

\* ProviderHandler::validate of provider_a: [err, error_index]
a_validate(self_data, ei) ==
    LET r == a_validate_from(self_data, 0, <<>>, ei)
    IN  [err |-> IF Len(r.output) > 0 THEN ErrAggregate(r.output) ELSE ErrNone,
         error_index |-> r.error_index]

\* the scores of one row of provider_a, in the order of its BTreeMap
a_scores(d, index) ==
    LET ks == SortedKeys(DOMAIN d.assessment.scores)
    IN  [i \in 1..Len(ks) |->
            NormalizeScore(ks[i], d.assessment.scores[ks[i]] * 10, index)]

\* the first loop of convert() from row index on: the patients map
RECURSIVE a_convert_from(_, _, _, _)
a_convert_from(self_data, ei, index, patients) ==
    IF index >= Len(self_data) THEN patients
    ELSE IF Skipped(ei, index)
    THEN a_convert_from(self_data, ei, index + 1, patients)
    ELSE LET d == self_data[index + 1]
         IN  a_convert_from(self_data, ei, index + 1,
                 Group(patients, d.patient.id, d.assessment.type_,
                       a_scores(d, index), a_get_metadata, index))

\* ProviderHandler::convert of provider_a: [panic, output]
a_convert(self_data, ei) ==
    [panic |-> FALSE, output |-> Output(a_convert_from(self_data, ei, 0, EmptyMap))]


(***************************************************************************)
(* provider_b.rs: flat JSON.  A row is a BTreeMap from field name to a     *)
(* serde_json::Value [t, s, n]: t is "str" (text s), "i64" (integer n),    *)
(* "f64" or "null".                                                        *)
(***************************************************************************)
\* "patient_id"
B_ID == <<112, 97, 116, 105, 101, 110, 116, 95, 105, 100>>
\* "patient_name"
B_NAME == <<112, 97, 116, 105, 101, 110, 116, 95, 110, 97, 109, 101>>
\* "assessment_type"
B_TYPE == <<97, 115, 115, 101, 115, 115, 109, 101, 110, 116, 95, 116, 121, 112, 101>>
\* "notes"
B_NOTES == <<110, 111, 116, 101, 115>>
\* "score_"
SCORE_PREFIX == <<115, 99, 111, 114, 101, 95>>

\* |data| data.contains_key(K.0) && data[K.0].is_string()
b_is_string(d, key) == key \in DOMAIN d /\ d[key].t = "str"

is_i64(v) == v.t = "i64"

\* Value::as_i64: Some(n) or None (an empty sequence)
as_i64(v) == IF v.t = "i64" THEN <<v.n>> ELSE <<>>

\* Value::as_str
as_str(v) == IF v.t = "str" THEN <<v.s>> ELSE <<>>

\* data.keys().filter(|x| x.starts_with("score_")), in key order
b_score_keys(d) == SortedKeys({k \in DOMAIN d : StartsWith(k, SCORE_PREFIX)})

b_get_metadata ==
    [sourceProvider |-> "provider_b", sourceFormat |-> "flat_key_value",
     ingestedAt |-> "now", version |-> "1.0"]

\* serde_json::from_str::<Vec<BTreeMap<String, Value>>>: the text is JSON, an
\* array, and every element is a JSON object
b_from_str_ok(t) ==
    /\ t.wellFormed
    /\ \A i \in 1..Len(t.items) : t.items[i].conforms

\* ProviderHandler::parse of provider_b: [ok, err, data]
b_parse(t, self_data) ==
    IF b_from_str_ok(t)
    THEN [ok |-> TRUE, err |-> ErrNone,
          data |-> [i \in 1..Len(t.items) |-> t.items[i].object]]
    ELSE [ok |-> FALSE, err |-> ErrParse("serde_json"), data |-> self_data]

\* the inner loop of validate() over the score_ keys: the entries it pushes
\* for the row (it breaks after the first)
RECURSIVE b_score_errors(_, _, _)
b_score_errors(d, keys, index) ==
    IF keys = <<>> THEN <<>>
    ELSE IF ~is_i64(d[keys[1]])
    THEN <<ErrValidate("Data is invalid", index)>>
    ELSE IF as_i64(d[keys[1]]) = <<>>
    THEN <<ErrValidate("Data is invalid", index)>>
    ELSE b_score_errors(d, Tail(keys), index)

\* b_row_errors without the continue after the first push
b_row_errors_no_continue(d, index) ==
    (IF \/ ~b_is_string(d, B_ID)
        \/ ~b_is_string(d, B_NAME)
        \/ ~b_is_string(d, B_TYPE)
        \/ ~b_is_string(d, B_NOTES)
     THEN <<ErrValidate("Data is invalid", index)>>
     ELSE <<>>) \o b_score_errors(d, b_score_keys(d), index)

\* the body of the loop of validate() for one row: the entries it pushes
b_row_errors(d, index) ==
    IF \/ ~b_is_string(d, B_ID)
       \/ ~b_is_string(d, B_NAME)
       \/ ~b_is_string(d, B_TYPE)
       \/ ~b_is_string(d, B_NOTES)
    THEN <<ErrValidate("Data is invalid", index)>>
    ELSE b_score_errors(d, b_score_keys(d), index)

RECURSIVE b_validate_from(_, _, _, _)
b_validate_from(self_data, index, output, ei) ==
    IF index >= Len(self_data) THEN [output |-> output, error_index |-> ei]
    ELSE LET es == b_row_errors(self_data[index + 1], index)
         IN  b_validate_from(self_data, index + 1, output \o es,
                             IF es = <<>> THEN ei ELSE ei \cup {index})

\* ProviderHandler::validate of provider_b: [err, error_index]
b_validate(self_data, ei) ==
    LET r == b_validate_from(self_data, 0, <<>>, ei)
    IN  [err |-> IF Len(r.output) > 0 THEN ErrAggregate(r.output) ELSE ErrNone,
         error_index |-> r.error_index]

\* convert() panics on the row: data[K] of a missing key, unwrap() of None
b_row_panics(d) ==
    \/ B_ID \notin DOMAIN d
    \/ as_str(d[B_ID]) = <<>>
    \/ B_TYPE \notin DOMAIN d
    \/ as_str(d[B_TYPE]) = <<>>
    \/ \E k \in DOMAIN d : StartsWith(k, SCORE_PREFIX) /\ as_i64(d[k]) = <<>>

\* the scores of one row of provider_b
b_scores(d, index) ==
    LET ks == b_score_keys(d)
    IN  [i \in 1..Len(ks) |->
            NormalizeScore(DropPrefix(ks[i], Len(SCORE_PREFIX)),
                           as_i64(d[ks[i]])[1], index)]

\* the first loop of convert() from row index on: [panic, patients]
RECURSIVE b_convert_from(_, _, _, _)
b_convert_from(self_data, ei, index, patients) ==
    IF index >= Len(self_data) THEN [panic |-> FALSE, patients |-> patients]
    ELSE IF Skipped(ei, index)
    THEN b_convert_from(self_data, ei, index + 1, patients)
    ELSE LET d == self_data[index + 1]
         IN  IF b_row_panics(d) THEN [panic |-> TRUE, patients |-> EmptyMap]
             ELSE b_convert_from(self_data, ei, index + 1,
                      Group(patients, as_str(d[B_ID])[1], as_str(d[B_TYPE])[1],
                            b_scores(d, index), b_get_metadata, index))

\* ProviderHandler::convert of provider_b: [panic, output]
b_convert(self_data, ei) ==
    LET r == b_convert_from(self_data, ei, 0, EmptyMap)
    IN  IF r.panic THEN [panic |-> TRUE, output |-> <<>>]
        ELSE [panic |-> FALSE, output |-> Output(r.patients)]

(***************************************************************************)
(* provider_c.rs: delimited text.  A text is its header record and its     *)
(* data records, each a sequence of fields; a row is a BTreeMap from       *)
(* header name to trimmed field.                                           *)
(***************************************************************************)
\* "patient_id"
C_ID == <<112, 97, 116, 105, 101, 110, 116, 95, 105, 100>>
\* "assessment_date"
C_DATE == <<97, 115, 115, 101, 115, 115, 109, 101, 110, 116, 95, 100, 97, 116, 101>>
\* "metric_name"
C_METRIC == <<109, 101, 116, 114, 105, 99, 95, 110, 97, 109, 101>>
\* "metric_value"
C_VALUE == <<109, 101, 116, 114, 105, 99, 95, 118, 97, 108, 117, 101>>
\* "category"
C_CATEGORY == <<99, 97, 116, 101, 103, 111, 114, 121>>
\* "-"
DASH == <<45>>

\* parse_assessment_date(..).is_some()
parse_assessment_date(s) == ParseDate(s, DASH)

c_id_ok(d) == C_ID \in DOMAIN d /\ Len(d[C_ID]) > 0
c_date_ok(d) == C_DATE \in DOMAIN d /\ parse_assessment_date(d[C_DATE])
c_metric_ok(d) == C_METRIC \in DOMAIN d /\ Len(d[C_METRIC]) > 0
c_value_ok(d) ==
    IF C_VALUE \notin DOMAIN d THEN FALSE
    ELSE LET r == ParseI64(d[C_VALUE])
         IN  IF r.ok THEN r.v >= 0 /\ r.v <= 100 ELSE FALSE
c_category_ok(d) == C_CATEGORY \in DOMAIN d /\ Len(d[C_CATEGORY]) > 0

c_get_metadata ==
    [sourceProvider |-> "provider_c", sourceFormat |-> "csv",
     ingestedAt |-> "now", version |-> "1.0"]

\* what rdr.records().next() yields for each data record: the reader is built
\* with has_headers(true) and without flexible(true), so a record whose field
\* count differs from the first record's (the header's) is an Err
\* (UnequalLengths) and the reader goes on to the next record
csv_records(t) ==
    [i \in 1..Len(t.records) |->
        [ok |-> Len(t.records[i]) = Len(t.headers), values |-> t.records[i]]]

\* row.insert(headers[index].clone(), value.trim().into()) for every value
c_row(headers, values) ==
    [k \in {headers[i] : i \in 1..Len(values)} |->
        LET last == CHOOSE i \in 1..Len(values) :
                        /\ headers[i] = k
                        /\ \A j \in 1..Len(values) : headers[j] = k => j <= i
        IN  Trim(values[last])]

\* the while loop of parse(): [ok, err, data]
RECURSIVE c_parse_from(_, _, _)
c_parse_from(headers, results, self_data) ==
    IF results = <<>> THEN [ok |-> TRUE, err |-> ErrNone, data |-> self_data]
    ELSE IF results[1].ok
    THEN IF Len(results[1].values) # Len(headers)
         THEN [ok |-> FALSE,
               err |-> ErrParse("Field count is not equal to header count"),
               data |-> self_data]
         ELSE c_parse_from(headers, Tail(results),
                           Append(self_data, c_row(headers, results[1].values)))
    ELSE c_parse_from(headers, Tail(results), self_data)

\* ProviderHandler::parse of provider_c: [ok, err, data].  rdr.headers() is
\* Ok for every &str (an empty text has an empty header record)
c_parse(t, self_data) == c_parse_from(t.headers, csv_records(t), self_data)

c_invalid(d) ==
    \/ ~c_id_ok(d)
    \/ ~c_date_ok(d)
    \/ ~c_metric_ok(d)
    \/ ~c_value_ok(d)
    \/ ~c_category_ok(d)

RECURSIVE c_validate_from(_, _, _, _)
c_validate_from(self_data, index, output, ei) ==
    IF index >= Len(self_data) THEN [output |-> output, error_index |-> ei]
    ELSE IF c_invalid(self_data[index + 1])
    THEN c_validate_from(self_data, index + 1,
                         Append(output, ErrValidate("Data is invalid", index)),
                         ei \cup {index})
    ELSE c_validate_from(self_data, index + 1, output, ei)

\* ProviderHandler::validate of provider_c: [err, error_index]
c_validate(self_data, ei) ==
    LET r == c_validate_from(self_data, 0, <<>>, ei)
    IN  [err |-> IF Len(r.output) > 0 THEN ErrAggregate(r.output) ELSE ErrNone,
         error_index |-> r.error_index]

\* convert() panics on the row: data[K] of a missing key, unwrap() of Err
c_row_panics(d) ==
    \/ C_ID \notin DOMAIN d
    \/ C_CATEGORY \notin DOMAIN d
    \/ C_METRIC \notin DOMAIN d
    \/ C_VALUE \notin DOMAIN d
    \/ ~ParseI64(d[C_VALUE]).ok

\* the score of one row of provider_c
c_scores(d, index) ==
    <<NormalizeScore(d[C_METRIC], ParseI64(d[C_VALUE]).v * 10, index)>>

RECURSIVE c_convert_from(_, _, _, _)
c_convert_from(self_data, ei, index, patients) ==
    IF index >= Len(self_data) THEN [panic |-> FALSE, patients |-> patients]
    ELSE IF Skipped(ei, index)
    THEN c_convert_from(self_data, ei, index + 1, patients)
    ELSE LET d == self_data[index + 1]
         IN  IF c_row_panics(d) THEN [panic |-> TRUE, patients |-> EmptyMap]
             ELSE c_convert_from(self_data, ei, index + 1,
                      Group(patients, d[C_ID], d[C_CATEGORY],
                            c_scores(d, index), c_get_metadata, index))

\* ProviderHandler::convert of provider_c: [panic, output]
c_convert(self_data, ei) ==
    LET r == c_convert_from(self_data, ei, 0, EmptyMap)
    IN  IF r.panic THEN [panic |-> TRUE, output |-> <<>>]
        ELSE [panic |-> FALSE, output |-> Output(r.patients)]


(***************************************************************************)
(* Inputs.                                                                 *)
(***************************************************************************)
SeqsUpTo(S, n) == UNION {[1..k -> S] : k \in 0..n}

\* a JSON value
JStr(x) == [t |-> "str", s |-> x, n |-> 0]
JInt(x) == [t |-> "i64", s |-> <<>>, n |-> x]
JFloat == [t |-> "f64", s |-> <<>>, n |-> 0]
JNull == [t |-> "null", s |-> <<>>, n |-> 0]

\* an input text: a JSON document (well-formed or not, the elements of its
\* array) or a delimited text (its header record and its data records)
JsonText(items) ==
    [wellFormed |-> TRUE, items |-> items, headers |-> <<>>, records |-> <<>>]
Malformed ==
    [wellFormed |-> FALSE, items |-> <<>>, headers |-> <<>>, records |-> <<>>]
CsvText(headers, records) ==
    [wellFormed |-> TRUE, items |-> <<>>, headers |-> headers, records |-> records]
NoText == CsvText(<<>>, <<>>)

\* an element of the JSON array given to provider_a
ItemA(id, name, dob, type_, scores, notes) ==
    [conforms |-> TRUE, id |-> id, name |-> name, dob |-> dob, type_ |-> type_,
     scores |-> scores, notes |-> notes]

\* "anxiety" and "social", two dimensions of the test of provider_a
AN == <<97, 110, 120, 105, 101, 116, 121>>
SO == <<115, 111, 99, 105, 97, 108>>

\* rows of provider_a that batches are built from: a blank row and rows of
\* the pairs ("P1","b"), ("P1","a")
CoreA ==
    { ItemA(<<>>, <<>>, <<>>, <<>>, EmptyMap, <<>>),
      ItemA(<<80, 49>>, <<110>>, <<50, 48, 50, 54, 48, 50, 50, 49>>, <<98>>, (SO :> 4) @@ (AN :> 7), <<120>>),
      ItemA(<<80, 49>>, <<110>>, <<>>, <<97>>, (AN :> 10), <<>>) }

\* rows of provider_a given alone: one field populated, the others blank
\* (a date of birth that does not parse counts as blank), and an element
\* that is not a Data
SingleA ==
    { ItemA(<<80>>, <<>>, <<>>, <<>>, EmptyMap, <<>>),
      ItemA(<<>>, <<110>>, <<>>, <<>>, EmptyMap, <<>>),
      ItemA(<<>>, <<>>, <<50, 48, 50, 54, 48, 50, 50, 49>>, <<>>, EmptyMap, <<>>),
      ItemA(<<>>, <<>>, <<50, 48, 50, 54, 45, 48, 50, 45, 50, 49>>, <<>>, EmptyMap, <<>>),
      ItemA(<<>>, <<>>, <<50, 48, 50, 54, 48, 50, 51, 48>>, <<>>, EmptyMap, <<>>),
      ItemA(<<>>, <<>>, <<>>, <<98>>, EmptyMap, <<>>),
      ItemA(<<>>, <<>>, <<>>, <<>>, (AN :> 7), <<>>),
      ItemA(<<>>, <<>>, <<>>, <<>>, EmptyMap, <<120>>),
      [ItemA(<<>>, <<>>, <<>>, <<>>, EmptyMap, <<>>) EXCEPT !.conforms = FALSE] }

TextsA ==
    {Malformed} \cup {JsonText(s) : s \in SeqsUpTo(CoreA, MaxRows)}
                \cup {JsonText(<<i>>) : i \in SingleA}

\* an element of the JSON array given to provider_b
ItemB(object) == [conforms |-> TRUE, object |-> object]

\* "score_m", "score_p", "score"
SCORE_M == <<115, 99, 111, 114, 101, 95, 109>>
SCORE_P == <<115, 99, 111, 114, 101, 95, 112>>
SCORE == <<115, 99, 111, 114, 101>>

ObjB(id, name, type_, notes) ==
    (B_ID :> id) @@ (B_NAME :> name) @@ (B_TYPE :> type_) @@ (B_NOTES :> notes)

\* rows of provider_b that batches are built from: the pairs ("P1","a") and
\* ("P0","b"), and a row whose id is a number and whose score is not an
\* integer
CoreB ==
    { ItemB(ObjB(JStr(<<80, 49>>), JStr(<<110>>), JStr(<<97>>), JStr(<<>>))
            @@ (SCORE_P :> JInt(7)) @@ (SCORE_M :> JInt(8)) @@ (SCORE :> JFloat)),
      ItemB(ObjB(JStr(<<80, 48>>), JStr(<<>>), JStr(<<98>>), JStr(<<120>>))
            @@ (SCORE_P :> JInt(3))),
      ItemB(ObjB(JInt(1), JStr(<<110>>), JStr(<<98>>), JStr(<<120>>))
            @@ (SCORE_M :> JFloat)) }

\* rows of provider_b given alone: two scores that are not integers, a
\* missing field, a field of another type, an empty object and an element
\* that is not an object
SingleB ==
    { ItemB(ObjB(JStr(<<80, 48>>), JStr(<<110>>), JStr(<<98>>), JStr(<<120>>))
            @@ (SCORE_M :> JFloat) @@ (SCORE_P :> JNull)),
      ItemB((B_ID :> JStr(<<80, 49>>)) @@ (B_NAME :> JStr(<<110>>)) @@ (B_TYPE :> JStr(<<98>>))),
      ItemB(ObjB(JStr(<<80, 49>>), JNull, JStr(<<98>>), JStr(<<120>>))),
      ItemB(ObjB(JStr(<<80, 49>>), JStr(<<110>>), JInt(2), JStr(<<120>>))),
      ItemB(EmptyMap),
      [ItemB(EmptyMap) EXCEPT !.conforms = FALSE] }

TextsB ==
    {Malformed} \cup {JsonText(s) : s \in SeqsUpTo(CoreB, MaxRows)}
                \cup {JsonText(<<i>>) : i \in SingleB}

\* the header of the test of provider_c, and one without the category
Header5 == <<C_ID, C_DATE, C_METRIC, C_VALUE, C_CATEGORY>>
Header4 == <<C_ID, C_DATE, C_METRIC, C_VALUE>>

\* a record of four fields
Short == <<<<80, 49>>, <<50, 48, 50, 52, 45, 49, 48, 45, 49, 53>>, <<115, 111, 99>>, <<52>>>>

\* records of provider_c that batches are built from: two valid ones (the
\* second with blanks to trim) and one with a field less than the header
CoreC ==
    { <<<<80, 49>>, <<50, 48, 50, 52, 45, 49, 48, 45, 49, 53>>, <<97, 116, 116>>, <<54>>, <<98>>>>,
      <<<<32, 32, 80, 48>>, <<50, 48, 50, 52, 45, 49, 45, 53>>, <<115, 111, 99>>, <<49, 48, 48, 32>>, <<97>>>>,
      Short }

\* records of provider_c given alone: the value is out of range; the date
\* is not YYYY-MM-DD and the value is not a number
SingleC ==
    { <<<<80, 49>>, <<50, 48, 50, 52, 45, 49, 48, 45, 49, 53>>, <<115, 111, 99>>, <<49, 48, 49>>, <<98>>>>,
      <<<<80, 49>>, <<50, 48, 50, 52, 49, 48, 49, 53>>, <<115, 111, 99>>, <<52, 120>>, <<98>>>> }

TextsC ==
    {CsvText(<<>>, <<>>)}
    \cup {CsvText(Header5, s) : s \in SeqsUpTo(CoreC, MaxRows)}
    \cup {CsvText(Header5, <<r>>) : r \in SingleC}
    \cup {CsvText(Header4, <<Short>>)}

Providers == {"a", "b", "c"}

Texts(p) == IF p = "a" THEN TextsA ELSE IF p = "b" THEN TextsB ELSE TextsC

(***************************************************************************)
(* The Provider trait object: dispatch on the adapter.                     *)
(***************************************************************************)
\* provider.parse(data): [ok, err, data]
parse(p, t, self_data) ==
    IF p = "a" THEN a_parse(t, self_data)
    ELSE IF p = "b" THEN b_parse(t, self_data)
    ELSE c_parse(t, self_data)

\* provider.validate(): [err, error_index]
validate(p, self_data, ei) ==
    IF p = "a" THEN a_validate(self_data, ei)
    ELSE IF p = "b" THEN b_validate(self_data, ei)
    ELSE c_validate(self_data, ei)

\* provider.convert(): [panic, output]
convert(p, self_data, ei) ==
    IF p = "a" THEN a_convert(self_data, ei)
    ELSE IF p = "b" THEN b_convert(self_data, ei)
    ELSE c_convert(self_data, ei)

\* the value an adapter call returned
Ret(op, ok, err, records) == [op |-> op, ok |-> ok, err |-> err, records |-> records]

\* the value run_provider / handle_data returned
RunNone == [tag |-> "none", records |-> <<>>, err |-> ErrNone]
RunOk(records, err) == [tag |-> "Ok", records |-> records, err |-> err]
RunErr(err) == [tag |-> "Err", records |-> <<>>, err |-> err]

(***************************************************************************)
(* State machine.                                                          *)
(*   provider, data, error_index   the adapter instance                    *)
(*   pc                            position inside run_provider            *)
(*   text                          the text of the parse call or of the    *)
(*                                 run in progress or just returned        *)
(*   valdation_errors              run_provider's local of that name       *)
(*   calls                         the adapter calls run_provider made     *)
(*   ret                           what the latest adapter call returned   *)
(*   runRet                        what handle_data just returned          *)
(* What a returned call leaves behind (text, calls, valdation_errors,      *)
(* ret, runRet) is dropped when the next call is made.                     *)
(***************************************************************************)
\* ProviderHandler::new()
Init ==
    /\ provider \in Providers
    /\ data = <<>>
    /\ error_index = {}
    /\ pc = "idle"
    /\ text = NoText
    /\ valdation_errors = ErrNone
    /\ calls = <<>>
    /\ ret = Ret("new", TRUE, ErrNone, <<>>)
    /\ runRet = RunNone

\* the effect of provider.parse(t) on the instance
DoParse(t) ==
    LET r == parse(provider, t, data)
    IN  /\ Len(r.data) <= MaxRows
        /\ data' = r.data
        /\ ret' = Ret("parse", r.ok, r.err, <<>>)
        /\ UNCHANGED <<provider, error_index>>

\* the effect of provider.validate() on the instance
DoValidate ==
    LET r == validate(provider, data, error_index)
    IN  /\ error_index' = r.error_index
        /\ ret' = Ret("validate", TRUE, r.err, <<>>)
        /\ UNCHANGED <<provider, data>>

\* the effect of provider.convert(): none on the instance (&self)
DoConvert ==
    LET r == convert(provider, data, error_index)
    IN  /\ ret' = Ret("convert", ~r.panic, ErrNone, r.output)
        /\ UNCHANGED <<provider, data, error_index>>

\* nothing of an earlier run is in scope
NoRun ==
    /\ valdation_errors' = ErrNone
    /\ calls' = <<>>
    /\ runRet' = RunNone

\* a caller (the unit tests) calls the adapter directly
Parse(t) ==
    /\ pc = "idle"
    /\ DoParse(t)
    /\ text' = t
    /\ NoRun
    /\ UNCHANGED pc

Validate ==
    /\ pc = "idle"
    /\ DoValidate
    /\ text' = NoText
    /\ NoRun
    /\ UNCHANGED pc

Convert ==
    /\ pc = "idle"
    /\ DoConvert
    /\ text' = NoText
    /\ NoRun
    /\ UNCHANGED pc

\* handle_data(name, file): a new handler of that name and the file's
\* contents, given to run_provider; Err(Unknown) for any other name
HandleData(name, t) ==
    /\ pc = "idle"
    /\ IF name \in Providers
       THEN /\ provider' = name
            /\ data' = <<>>
            /\ error_index' = {}
            /\ pc' = "parse"
            /\ text' = t
            /\ NoRun
            /\ ret' = Ret("new", TRUE, ErrNone, <<>>)
       ELSE /\ runRet' = RunErr(ErrUnknown("Provider not found"))
            /\ text' = NoText
            /\ valdation_errors' = ErrNone
            /\ calls' = <<>>
            /\ ret' = Ret("none", TRUE, ErrNone, <<>>)
            /\ UNCHANGED <<provider, data, error_index, pc>>

\* RunParse going on to validate() whatever parse() returned
RunParseIgnoringErr ==
    /\ pc = "parse"
    /\ DoParse(text)
    /\ calls' = Append(calls, "parse")
    /\ pc' = "validate"
    /\ UNCHANGED <<text, valdation_errors, runRet>>

\* run_provider: if let Err(err) = provider.parse(data) { return Err(err); }
RunParse ==
    /\ pc = "parse"
    /\ DoParse(text)
    /\ calls' = Append(calls, "parse")
    /\ IF ret'.ok
       THEN pc' = "validate" /\ runRet' = runRet
       ELSE pc' = "idle" /\ runRet' = RunErr(ret'.err)
    /\ UNCHANGED <<text, valdation_errors>>

\* run_provider: let valdation_errors = provider.validate();
RunValidate ==
    /\ pc = "validate"
    /\ DoValidate
    /\ calls' = Append(calls, "validate")
    /\ valdation_errors' = ret'.err
    /\ pc' = "convert"
    /\ UNCHANGED <<text, runRet>>

\* RunConvert returning the validation result as an Err when it is not None
RunConvertFatalValidation ==
    /\ pc = "convert"
    /\ DoConvert
    /\ calls' = Append(calls, "convert")
    /\ runRet' = IF ~ret'.ok THEN RunNone
                 ELSE IF valdation_errors.tag = "None"
                 THEN RunOk(ret'.records, valdation_errors)
                 ELSE RunErr(valdation_errors)
    /\ pc' = "idle"
    /\ UNCHANGED <<text, valdation_errors>>

\* run_provider: Ok((provider.convert(), valdation_errors)); a panic of
\* convert() unwinds through run_provider, which then returns nothing
RunConvert ==
    /\ pc = "convert"
    /\ DoConvert
    /\ calls' = Append(calls, "convert")
    /\ runRet' = IF ret'.ok THEN RunOk(ret'.records, valdation_errors)
                 ELSE RunNone
    /\ pc' = "idle"
    /\ UNCHANGED <<text, valdation_errors>>

Next ==
    \/ \E t \in Texts(provider) : Parse(t)
    \/ Validate
    \/ Convert
    \/ \E name \in Providers : \E t \in Texts(name) : HandleData(name, t)
    \/ HandleData("x", NoText)
    \/ RunParse
    \/ RunValidate
    \/ RunConvert

Spec == Init /\ [][Next]_vars


(***************************************************************************)
(* Properties.                                                             *)
(***************************************************************************)
\* convert() has just returned a sequence of records (it did not panic)
Converted == ret.op = "convert" /\ ret.ok

\* the indices of the stored rows
RowIndices == 0..(Len(data) - 1)

\* the stored rows convert() does not skip
ValidIndices == RowIndices \ error_index

\* every score of every record convert() returned
OutputScores ==
    UNION {{ret.records[i].scores[j] : j \in 1..Len(ret.records[i].scores)} :
              i \in 1..Len(ret.records)}

\* the raw integer of the score field a score was derived from
RawInteger(s) ==
    LET d == data[s.row + 1]
    IN  IF provider = "a" THEN d.assessment.scores[s.dimension]
        ELSE IF provider = "b" THEN d[SCORE_PREFIX \o s.dimension].n
        ELSE ParseI64(d[C_VALUE]).v

\* C1: every Score.value convert() returns is 10 times the raw integer of its
\* score field in provider_a and provider_b, and the raw metric_value itself
\* in provider_c.
C1_ScaleInvariant ==
    Converted =>
        \A s \in OutputScores :
            s.value = IF provider \in {"a", "b"} THEN 10 * RawInteger(s)
                      ELSE RawInteger(s)

\* C2: convert() creates no record because of a row whose index is in
\* ErrorIndex, and no score of its output is derived from such a row.
C2_NoOutputFromErrorRows ==
    Converted =>
        /\ \A i \in 1..Len(ret.records) : ret.records[i].createdBy \notin error_index
        /\ \A s \in OutputScores : s.row \notin error_index

\* convert() returned records from a batch of which a row is in ErrorIndex
C2_Witness ==
    /\ Converted
    /\ ret.records # <<>>
    /\ error_index \cap RowIndices # {}

\* the delimited text has a data record whose field count is not the header's
HasMalformedRow(t) ==
    \E i \in 1..Len(t.records) : Len(t.records[i]) # Len(t.headers)

\* C3: given a delimited text with a data record whose field count differs
\* from the header's, parse() of provider_c returns Err(Parse), and the
\* pipeline run on that text returns that Parse error and no record.
C3_MalformedRowIsParseError ==
    /\ (provider = "c" /\ ret.op = "parse" /\ HasMalformedRow(text))
          => (~ret.ok /\ ret.err.tag = "Parse")
    /\ (provider = "c" /\ runRet.tag # "none" /\ HasMalformedRow(text))
          => (runRet.tag = "Err" /\ runRet.err.tag = "Parse" /\ runRet.records = <<>>)

\* the ordered sequence of rows a text contains: what parse() stores of it
\* in a new instance
RowsOf(p, t) == parse(p, t, <<>>).data

\* C4: after a successful parse(t) the row storage is exactly the sequence of
\* rows of t, whatever was parsed before.
C4_ParseReplacesRows ==
    (ret.op = "parse" /\ ret.ok) => data = RowsOf(provider, text)


\* the (patientId, assessmentType) pair convert() derives from a stored row
PairOf(p, d) ==
    IF p = "a" THEN <<d.patient.id, d.assessment.type_>>
    ELSE IF p = "b" THEN <<d[B_ID].s, d[B_TYPE].s>>
    ELSE <<d[C_ID], d[C_CATEGORY]>>

\* the pair of an output record
KeyOf(rec) == <<rec.patientId, rec.assessmentType>>

\* the pairs of the records convert() returned, in order
OutputKeys == [i \in 1..Len(ret.records) |-> KeyOf(ret.records[i])]

\* C5: convert() returns as many records as there are distinct (patientId,
\* assessmentType) pairs among the rows whose index is not in ErrorIndex, and
\* no two of them have the same pair.
C5_GroupingCount ==
    Converted =>
        /\ Len(ret.records) =
              Cardinality({PairOf(provider, data[i + 1]) : i \in ValidIndices})
        /\ \A i, j \in 1..Len(ret.records) :
              i # j => OutputKeys[i] # OutputKeys[j]

\* convert() merged two rows into one record, or kept a patient's two types
\* apart
C5_Witness ==
    /\ Converted
    /\ Cardinality(ValidIndices) = 2
    /\ \/ Len(ret.records) = 1
       \/ /\ Len(ret.records) = 2
          /\ ret.records[1].patientId = ret.records[2].patientId

\* the order of the output: by patientId, then by assessmentType
KeyLess(k1, k2) ==
    \/ StrLess(k1[1], k2[1])
    \/ (k1[1] = k2[1] /\ StrLess(k1[2], k2[2]))

\* the stored rows in another order, each keeping its flag in ErrorIndex
Permuted(f) == [k \in 1..Len(data) |-> data[f[k]]]
PermutedErrors(f) == {k - 1 : k \in {k \in 1..Len(data) : (f[k] - 1) \in error_index}}
PermutedKeys(f) ==
    LET out == convert(provider, Permuted(f), PermutedErrors(f)).output
    IN  [i \in 1..Len(out) |-> KeyOf(out[i])]

\* C6: the sequence convert() returns ascends by patientId and, among equal
\* patientIds, by assessmentType, in the byte-wise order of the strings; the
\* same rows in any other order give the same sequence of pairs.
C6_OutputSorted ==
    Converted =>
        /\ \A i, j \in 1..Len(ret.records) :
              i < j => KeyLess(OutputKeys[i], OutputKeys[j])
        /\ \A f \in Permutations(1..Len(data)) : PermutedKeys(f) = OutputKeys

\* convert() returned the record of a later row before that of an earlier one
C6_Witness ==
    /\ Converted
    /\ Len(ret.records) = 2
    /\ ret.records[1].createdBy > ret.records[2].createdBy

\* run_provider is running or has just returned
InRun == calls # <<>>

\* C7: when parse() returns Err(e) inside run_provider, run_provider returns
\* at once: its result is Err(e), a Parse error, and it has called neither
\* validate() nor convert(); it goes on to validate() only after an Ok.
C7_ParseFailureShortCircuits ==
    /\ (InRun /\ ret.op = "parse" /\ ~ret.ok)
          => /\ pc = "idle"
             /\ calls = <<"parse">>
             /\ runRet = RunErr(ret.err)
             /\ ret.err.tag = "Parse"
    /\ pc = "validate" => (ret.op = "parse" /\ ret.ok)
    /\ (InRun /\ runRet.tag = "Err") => (ret.op = "parse" /\ ~ret.ok)

\* a run ended by the Parse error of parse()
C7_Witness ==
    /\ pc = "idle"
    /\ calls = <<"parse">>
    /\ runRet.tag = "Err"
    /\ runRet.err.tag = "Parse"

\* C8: when parse() succeeds, run_provider calls validate() once, then
\* convert() once, and returns Ok((records, v)), records what convert()
\* returned and v what validate() returned, also when rows failed validation.
C8_ValidationNonFatal ==
    /\ pc = "validate" => calls = <<"parse">>
    /\ pc = "convert" =>
          /\ calls = <<"parse", "validate">>
          /\ ret.op = "validate"
          /\ valdation_errors = ret.err
    /\ (InRun /\ pc = "idle" /\ ~(ret.op = "parse" /\ ~ret.ok)) =>
          /\ calls = <<"parse", "validate", "convert">>
          /\ ret.op = "convert"
          /\ runRet = RunOk(ret.records, valdation_errors)
          /\ valdation_errors = validate(provider, data, error_index).err

\* a run that returned Ok with records although a row failed validation
C8_Witness ==
    /\ InRun
    /\ pc = "idle"
    /\ runRet.tag = "Ok"
    /\ runRet.err.tag = "Aggregate"
    /\ runRet.records # <<>>

\* a row of provider_b fails its predicates: one of the four text fields is
\* missing or not a string, or a score_ field is not an integer
b_fails(d) ==
    \/ \E k \in {B_ID, B_NAME, B_TYPE, B_NOTES} : k \notin DOMAIN d \/ d[k].t # "str"
    \/ \E k \in DOMAIN d : StartsWith(k, SCORE_PREFIX) /\ d[k].t # "i64"

\* the stored row fails the predicates of its adapter
RowFails(p, d) ==
    IF p = "a" THEN a_invalid(d)
    ELSE IF p = "b" THEN b_fails(d)
    ELSE c_invalid(d)

FailingIndices == {i \in RowIndices : RowFails(provider, data[i + 1])}

\* C9: validate() returns None exactly when no stored row fails; otherwise
\* Aggregate(list), list holding one Validate entry per failing row and none
\* for another row, in strictly ascending order of the index, every failing
\* index being in ErrorIndex afterwards; it never returns Aggregate([]).
C9_ValidateResult ==
    ret.op = "validate" =>
        LET list == ret.err.list
        IN  /\ ret.err.tag \in {"None", "Aggregate"}
            /\ ret.err.tag = "None" <=> FailingIndices = {}
            /\ ret.err.tag = "Aggregate" => list # <<>>
            /\ ret.err.tag = "None" => list = <<>>
            /\ \A k \in 1..Len(list) :
                  /\ list[k].tag = "Validate"
                  /\ list[k].index \in FailingIndices
            /\ \A k, l \in 1..Len(list) : k < l => list[k].index < list[l].index
            /\ {list[k].index : k \in 1..Len(list)} = FailingIndices
            /\ FailingIndices \subseteq error_index

\* validate() returned an Aggregate for a batch of which a row passes
C9_Witness ==
    /\ ret.op = "validate"
    /\ ret.err.tag = "Aggregate"
    /\ Len(data) > Len(ret.err.list)

\* the element of the JSON array has none of the six fields populated; a
\* date of birth that is not a YYYYMMDD date counts as absent
BlankItem(item) ==
    /\ item.id = <<>>
    /\ item.name = <<>>
    /\ ~ParseDate(item.dob, <<>>)
    /\ item.type_ = <<>>
    /\ item.scores = EmptyMap
    /\ item.notes = <<>>

\* the indices of the Validate entries validate() returned
FlaggedIndices == {ret.err.list[k].index : k \in 1..Len(ret.err.list)}

\* C10: validate() of provider_a has a Validate entry for row i if and only
\* if the patient id, patient name, date of birth, assessment type, scores
\* and notes of row i are all empty or absent.
C10_NestedJsonRule ==
    /\ (provider = "a" /\ ret.op = "validate") =>
          \A i \in RowIndices :
              i \in FlaggedIndices <=>
                  LET d == data[i + 1]
                  IN  /\ d.patient.id = <<>> /\ d.patient.name = <<>>
                      /\ d.patient.dob = <<>> /\ d.assessment.type_ = <<>>
                      /\ d.assessment.scores = EmptyMap
                      /\ d.assessment.notes = <<>>
    /\ (provider = "a" /\ pc = "convert") =>
          \A i \in 1..Len(text.items) :
              (i - 1) \in FlaggedIndices <=> BlankItem(text.items[i])

\* validate() of provider_a flagged a row whose only content is a date of
\* birth that does not parse
C10_Witness ==
    /\ provider = "a"
    /\ pc = "convert"
    /\ Len(text.items) = 1
    /\ text.items[1].dob # <<>>
    /\ 0 \in FlaggedIndices


\* the dimensions of the score-bearing fields of a stored row, in the order
\* of its keys
ScoreFields(p, d) ==
    IF p = "a" THEN SortedKeys(DOMAIN d.assessment.scores)
    ELSE IF p = "b"
    THEN LET ks == SortedKeys({k \in DOMAIN d : StartsWith(k, SCORE_PREFIX)})
         IN  [i \in 1..Len(ks) |-> DropPrefix(ks[i], Len(SCORE_PREFIX))]
    ELSE <<d[C_METRIC]>>

\* the score fields, each with its row, of the rows from index i on that are
\* outside ErrorIndex and have the pair key, in ascending order of the row
RECURSIVE FieldsOfPairFrom(_, _)
FieldsOfPairFrom(key, i) ==
    IF i >= Len(data) THEN <<>>
    ELSE IF i \in ValidIndices /\ PairOf(provider, data[i + 1]) = key
    THEN LET fs == ScoreFields(provider, data[i + 1])
         IN  [j \in 1..Len(fs) |-> <<fs[j], i>>] \o FieldsOfPairFrom(key, i + 1)
    ELSE FieldsOfPairFrom(key, i + 1)

\* the dimension and the row of every score of a record, in order
FieldsOfRecord(rec) ==
    [j \in 1..Len(rec.scores) |-> <<rec.scores[j].dimension, rec.scores[j].row>>]

\* C11: for every (patientId, assessmentType) pair of the rows outside
\* ErrorIndex, convert() returns exactly one record, and its scores are those
\* of the rows of that pair, row after row in ascending index order, every
\* score field of every such row once and in no other record.
C11_MergeOfRecurringPairs ==
    Converted =>
        /\ \A i \in ValidIndices :
              Cardinality({r \in 1..Len(ret.records) :
                  KeyOf(ret.records[r]) = PairOf(provider, data[i + 1])}) = 1
        /\ \A r \in 1..Len(ret.records) :
              FieldsOfRecord(ret.records[r]) =
                  FieldsOfPairFrom(KeyOf(ret.records[r]), 0)

\* convert() put the scores of two rows into one record
C11_Witness ==
    /\ Converted
    /\ \E r \in 1..Len(ret.records) :
          \E j, k \in 1..Len(ret.records[r].scores) :
              ret.records[r].scores[j].row < ret.records[r].scores[k].row


\* C12: every validate() call adds the indices of the failing rows of the
\* stored batch to ErrorIndex and removes none, parse() and convert() leave
\* ErrorIndex as it is, so that ErrorIndex is the union of what the validate()
\* calls of the instance found; and convert() returns no score of a row whose
\* index is in ErrorIndex, a row that passes validation included.
C12_ErrorIndexOnlyGrows ==
    [][ /\ ret'.op = "validate" =>
              error_index' = error_index \cup FailingIndices
        /\ ret'.op \in {"parse", "convert"} => error_index' = error_index
        /\ (ret'.op = "convert" /\ ret'.ok) =>
              \A r \in 1..Len(ret'.records) :
                  \A j \in 1..Len(ret'.records[r].scores) :
                      ret'.records[r].scores[j].row \notin error_index
      ]_vars

\* the indices flagged for an earlier batch at which the stored batch has a
\* row that passes validation
StaleIndices ==
    {i \in error_index \cap RowIndices : ~RowFails(provider, data[i + 1])}

\* convert() skipped a row that passes validation, its index having been
\* flagged for an earlier batch
C12_Witness ==
    /\ Converted
    /\ StaleIndices # {}
    /\ \A i \in StaleIndices : i \notin {sc.row : sc \in OutputScores}

====
